---- MODULE Spec2Model ----
(***************************************************************************)
(* A model of the capacity_builder crate (src/src/lib.rs): the two-pass    *)
(* "measure then fill" StringBuilder / BytesBuilder engines, the direct     *)
(* formatting entry point StringBuilder::fmt, and the value protocol       *)
(* (byte_len / push_to / write_to_formatter) of the built-in values.       *)
(*                                                                         *)
(* Text and byte buffers are sequences of byte values 0..255; a &str is    *)
(* its UTF-8 byte sequence, so len() is Len and push_str is \o.            *)
(* usize arithmetic: a wrapped (release build) value is represented by its *)
(* representative nearest to zero, so a negative number stands for a       *)
(* value just below 2^64.                                                  *)
(***************************************************************************)
EXTENDS Integers, Sequences, FiniteSets, TLC

\* ------------------------------------------------------------------------
\* Bounds of the model
\* ------------------------------------------------------------------------

\* longest build routine (number of append calls the closure makes)
MaxOps == 2

\* ------------------------------------------------------------------------
\* Generic sequence helpers
\* ------------------------------------------------------------------------

\* s[from..] of Rust for a 0-based byte offset
SliceFrom(s, start) == SubSeq(s, start + 1, Len(s))

\* s[start..end] of Rust for 0-based byte offsets (end exclusive)
Slice(s, start, end) == SubSeq(s, start + 1, end)

\* does pat occur in s at 0-based offset i
MatchesAt(s, pat, i) ==
  /\ i + Len(pat) <= Len(s)
  /\ \A k \in 1..Len(pat) : s[i + k] = pat[k]

\* str::find: the 0-based offset of the first occurrence of pat, -1 for None
Find(s, pat) ==
  LET hits == {i \in 0..Len(s) : MatchesAt(s, pat, i)}
  IN IF hits = {} THEN -1 ELSE CHOOSE i \in hits : \A j \in hits : i <= j

\* a UTF-8 continuation byte (10xxxxxx)
IsContinuation(b) == b >= 128 /\ b < 192

\* ------------------------------------------------------------------------
\* char: len_utf8 and encode_utf8
\* ------------------------------------------------------------------------

len_utf8(c) ==
  IF c < 128 THEN 1
  ELSE IF c < 2048 THEN 2
  ELSE IF c < 65536 THEN 3
  ELSE 4

encode_utf8(c) ==
  IF c < 128 THEN <<c>>
  ELSE IF c < 2048 THEN <<192 + (c \div 64), 128 + (c % 64)>>
  ELSE IF c < 65536 THEN
    <<224 + (c \div 4096), 128 + ((c \div 64) % 64), 128 + (c % 64)>>
  ELSE
    <<240 + (c \div 262144), 128 + ((c \div 4096) % 64),
      128 + ((c \div 64) % 64), 128 + (c % 64)>>

\* ------------------------------------------------------------------------
\* Integers: count_digits! and the itoa decimal text
\* ------------------------------------------------------------------------

\* the while loop of count_digits!: divisions by ten while value > 0
RECURSIVE count_digits_loop(_, _)
count_digits_loop(value, count) ==
  IF value > 0 THEN count_digits_loop(value \div 10, count + 1) ELSE count

count_digits(value) ==
  IF value = 0 THEN 1 ELSE count_digits_loop(value, 0)

\* decimal digits (ASCII) of a non-positive number, most significant first;
\* working on the non-positive side keeps the minimum value in range
RECURSIVE NegDigits(_)
NegDigits(n) ==
  LET d == (10 - (n % 10)) % 10
      rest == (n + d) \div 10
  IN IF rest = 0 THEN <<48 + d>> ELSE NegDigits(rest) \o <<48 + d>>

\* itoa::Buffer::format: decimal text, a leading '-' for negative values
itoa_format(n) ==
  IF n < 0 THEN <<45>> \o NegDigits(n) ELSE NegDigits(0 - n)

\* ------------------------------------------------------------------------
\* The formatter sink (std::fmt::Formatter) as the builder sees it
\* ------------------------------------------------------------------------
\* out    : the text the sink has accepted
\* calls  : number of write calls made on it
\* script : outcomes of its next write calls (TRUE accepts, FALSE fails);
\*          a call beyond the script accepts
\* failed : the errors returned so far by writes, oldest first

Ok == [ok |-> TRUE]

FmtError(by, at) == [ok |-> FALSE, by |-> by, at |-> at]

\* Formatter::write_str (write_char is write_str of the encoded char)
write_str(f, s) ==
  IF f.script # <<>> /\ ~Head(f.script)
  THEN [f |-> [out |-> f.out, calls |-> f.calls + 1,
               script |-> Tail(f.script),
               failed |-> Append(f.failed, FmtError("sink", f.calls + 1))],
        res |-> FmtError("sink", f.calls + 1)]
  ELSE [f |-> [out |-> f.out \o s, calls |-> f.calls + 1,
               script |-> IF f.script = <<>> THEN <<>> ELSE Tail(f.script),
               failed |-> f.failed],
        res |-> Ok]

\* ------------------------------------------------------------------------
\* StringAppendableValue: byte_len / push_to / write_to_formatter
\* ------------------------------------------------------------------------
\* values are tagged records:
\*   [t |-> "&str" | "&String" | "&Cow<str>", s |-> bytes]
\*   [t |-> "char", c |-> code point]
\*   [t |-> "int", ty |-> type name, n |-> value]
\*   [t |-> "None"], [t |-> "Some", v |-> value]
\*   [t |-> "AppendableError"]   (the test's value whose write always fails)

StrLike == {"&str", "&String", "&Cow<str>"}

\* byte_len whose Option impl does not delegate to the value it holds
string_byte_len_OptionEmpty(value) ==
  CASE value.t \in StrLike -> Len(value.s)
    [] value.t = "char" -> len_utf8(value.c)
    [] value.t = "int" -> count_digits(value.n)
    [] value.t = "None" -> 0
    [] value.t = "Some" -> 0
    [] value.t = "AppendableError" -> 1

RECURSIVE string_byte_len(_)
string_byte_len(value) ==
  CASE value.t \in StrLike -> Len(value.s)
    [] value.t = "char" -> len_utf8(value.c)
    [] value.t = "int" -> count_digits(value.n)
    [] value.t = "None" -> 0
    [] value.t = "Some" -> string_byte_len(value.v)
    [] value.t = "AppendableError" -> 1

\* push_to of AppendableError is unreachable!()
RECURSIVE string_push_to_panics(_)
string_push_to_panics(value) ==
  CASE value.t = "AppendableError" -> TRUE
    [] value.t = "Some" -> string_push_to_panics(value.v)
    [] OTHER -> FALSE

RECURSIVE string_push_to(_, _)
string_push_to(value, text) ==
  CASE value.t \in StrLike -> text \o value.s
    [] value.t = "char" -> text \o encode_utf8(value.c)
    [] value.t = "int" -> text \o itoa_format(value.n)
    [] value.t = "None" -> text
    [] value.t = "Some" -> string_push_to(value.v, text)
    [] value.t = "AppendableError" -> text

\* write_to_formatter that writes an integer without its sign
write_to_formatter_DropsSign(value, f) ==
  LET digits(n) == IF n < 0 THEN Tail(itoa_format(n)) ELSE itoa_format(n)
      plain(v) ==
        CASE v.t \in StrLike -> write_str(f, v.s)
          [] v.t = "char" -> write_str(f, encode_utf8(v.c))
          [] v.t = "int" -> write_str(f, digits(v.n))
          [] v.t = "None" -> [f |-> f, res |-> Ok]
          [] v.t = "AppendableError" ->
               [f |-> [f EXCEPT !.failed =
                         Append(@, FmtError("AppendableError", f.calls))],
                res |-> FmtError("AppendableError", f.calls)]
  IN IF value.t = "Some" THEN plain(value.v) ELSE plain(value)

RECURSIVE write_to_formatter(_, _)
write_to_formatter(value, f) ==
  CASE value.t \in StrLike -> write_str(f, value.s)
    [] value.t = "char" -> write_str(f, encode_utf8(value.c))
    [] value.t = "int" -> write_str(f, itoa_format(value.n))
    [] value.t = "None" -> [f |-> f, res |-> Ok]
    [] value.t = "Some" -> write_to_formatter(value.v, f)
    [] value.t = "AppendableError" ->
         [f |-> [f EXCEPT !.failed =
                   Append(@, FmtError("AppendableError", f.calls))],
          res |-> FmtError("AppendableError", f.calls)]

\* ------------------------------------------------------------------------
\* BytesAppendableValue: byte_len / push_to
\* ------------------------------------------------------------------------
\*   [t |-> "&str" | "&String" | "&Cow<str>", s |-> bytes]
\*   [t |-> "char", c |-> code point]
\*   [t |-> "&Vec<u8>" | "[u8]" | "&[u8]" | "[u8; N]" | "&[u8; N]", s |-> bytes]
\*   [t |-> "u8", n |-> byte]
\*   [t |-> "None"], [t |-> "Some", v |-> value]

SliceLike == {"&Vec<u8>", "[u8]", "&[u8]", "[u8; N]", "&[u8; N]"}

RECURSIVE bytes_byte_len(_)
bytes_byte_len(value) ==
  CASE value.t \in StrLike -> Len(value.s)
    [] value.t = "char" -> len_utf8(value.c)
    [] value.t \in SliceLike -> Len(value.s)
    [] value.t = "u8" -> 1
    [] value.t = "None" -> 0
    [] value.t = "Some" -> bytes_byte_len(value.v)

RECURSIVE bytes_push_to(_, _)
bytes_push_to(value, bytes) ==
  CASE value.t \in StrLike -> bytes \o value.s
    [] value.t = "char" -> bytes \o encode_utf8(value.c)
    [] value.t \in SliceLike -> bytes \o value.s
    [] value.t = "u8" -> Append(bytes, value.n)
    [] value.t = "None" -> bytes
    [] value.t = "Some" -> bytes_push_to(value.v, bytes)

\* ------------------------------------------------------------------------
\* StringBuilder: the append operations, as functions of the builder
\* ------------------------------------------------------------------------
\* A builder b carries the struct's fields and what its references reach:
\*   capacity : StringBuilder.capacity
\*   mode     : "Capacity" | "Text" | "Format" | "FormatError"
\*   error    : the error held by Mode::FormatError (Ok in the other modes)
\*   text     : the buffer Mode::Text points to
\*   fmtr     : the formatter Mode::Format points to
\*   ctl      : "run", or how the call left normal control flow:
\*              "panic" (a panic unwinds out of build / fmt), "diverge"
\*              (a scan loop that never ends)
\*   produced : number of times the producer of append_owned_unsafe ran
\*   debug    : the build profile (debug assertions and overflow checks on)

\* number of char boundaries of a str: the match positions of an empty pattern
CharBoundaries(s) ==
  Cardinality({i \in 1..Len(s) : ~IsContinuation(s[i])}) + 1

\* number of non-overlapping matches of a non-empty pat in s[start..]
RECURSIVE CountFrom(_, _, _)
CountFrom(s, pat, start) ==
  LET pos == Find(SliceFrom(s, start), pat)
  IN IF pos = -1 THEN 0 ELSE 1 + CountFrom(s, pat, start + pos + Len(pat))

\* haystack.match_indices(pat).count()
match_indices_count(haystack, pat) ==
  IF pat = <<>> THEN CharBoundaries(haystack) ELSE CountFrom(haystack, pat, 0)

\* fn calculate_capacity: the count is taken of value within value;
\* val < 0 stands for the wrapped result of an underflowing subtraction
calculate_capacity(value, from, to) ==
  IF Len(from) = Len(to) THEN Len(value)
  ELSE
    LET count == match_indices_count(value, value)
    IN IF Len(to) > Len(from)
       THEN Len(value) + count * (Len(to) - Len(from))
       ELSE Len(value) - count * (Len(from) - Len(to))

\* capacity (+)= calculate_capacity(..): with overflow checks the
\* underflowing subtraction panics
add_calculated(b, value, from, to, reset) ==
  LET c == calculate_capacity(value, from, to)
  IN IF b.debug /\ c < 0 THEN [b EXCEPT !.ctl = "panic"]
     ELSE [b EXCEPT !.capacity = IF reset THEN c ELSE @ + c]

\* the scan loop stepping over one unit, not over the whole match
RECURSIVE text_with_replace_StepsOne(_, _, _, _, _)
text_with_replace_StepsOne(buffer, value, from, to, start) ==
  LET pos == Find(SliceFrom(value, start), from)
  IN IF pos = -1 THEN buffer \o SliceFrom(value, start)
     ELSE text_with_replace_StepsOne(
            (buffer \o Slice(value, start, start + pos)) \o to,
            value, from, to, start + pos + 1)

\* the scan loop of the Mode::Text arm (from non-empty)
RECURSIVE text_with_replace(_, _, _, _, _)
text_with_replace(buffer, value, from, to, start) ==
  LET pos == Find(SliceFrom(value, start), from)
  IN IF pos = -1 THEN buffer \o SliceFrom(value, start)
     ELSE text_with_replace(
            (buffer \o Slice(value, start, start + pos)) \o to,
            value, from, to, start + pos + Len(from))

\* fn format_with_replace; res is Ok or the error of the failed write.
\* With an empty `from` the loop never advances: it ends only on a failed
\* write, so once no failure is left in the script it diverges.
RECURSIVE format_with_replace(_, _, _, _, _, _)
format_with_replace(f, value, from, to, start, size) ==
  LET pos == Find(SliceFrom(value, start), from)
  IN IF pos = -1 THEN
       LET remaining == SliceFrom(value, start)
           w == write_str(f, remaining)
       IN [f |-> w.f, res |-> w.res, size |-> size + Len(remaining),
           diverge |-> FALSE]
     ELSE IF from = <<>> /\ \A i \in 1..Len(f.script) : f.script[i] THEN
       [f |-> f, res |-> Ok, size |-> size, diverge |-> TRUE]
     ELSE
       LET w1 == write_str(f, Slice(value, start, start + pos))
           w2 == write_str(w1.f, to)
       IN IF ~w1.res.ok THEN
            [f |-> w1.f, res |-> w1.res, size |-> size, diverge |-> FALSE]
          ELSE IF ~w2.res.ok THEN
            [f |-> w2.f, res |-> w2.res, size |-> size, diverge |-> FALSE]
          ELSE format_with_replace(w2.f, value, from, to,
                                   start + pos + Len(from),
                                   size + pos + Len(to))

\* StringBuilder::append_with_replace
append_with_replace(b, value, from, to) ==
  CASE b.mode = "Text" ->
         IF from = <<>> THEN [b EXCEPT !.ctl = "diverge"]
         ELSE [b EXCEPT !.text = text_with_replace(@, value, from, to, 0)]
    [] b.mode = "Format" ->
         LET r == format_with_replace(b.fmtr, value, from, to, 0, 0)
         IN IF r.diverge THEN [b EXCEPT !.ctl = "diverge"]
            ELSE IF r.res.ok
              THEN [b EXCEPT !.fmtr = r.f, !.capacity = @ + r.size]
              ELSE add_calculated(
                     [b EXCEPT !.fmtr = r.f, !.mode = "FormatError",
                               !.error = r.res],
                     value, from, to, TRUE)
    [] b.mode \in {"Capacity", "FormatError"} ->
         add_calculated(b, value, from, to, FALSE)

\* append_owned_unsafe that drops the error of a failed write
append_owned_unsafe_DropsError(b, size, text) ==
  CASE b.mode = "Text" ->
         IF b.debug /\ Len(text) # size
         THEN [b EXCEPT !.produced = @ + 1, !.ctl = "panic"]
         ELSE [b EXCEPT !.produced = @ + 1, !.text = @ \o text]
    [] b.mode = "Capacity" -> [b EXCEPT !.capacity = @ + size]
    [] b.mode = "Format" ->
         LET w == write_str(b.fmtr, text)
         IN [b EXCEPT !.produced = @ + 1, !.fmtr = w.f, !.capacity = @ + size]
    [] b.mode = "FormatError" -> [b EXCEPT !.capacity = @ + size]

\* append_owned_unsafe that measures by producing the text and taking its
\* length, not by the size it is given
append_owned_unsafe_MeasuresText(b, size, text) ==
  CASE b.mode = "Text" ->
         IF b.debug /\ Len(text) # size
         THEN [b EXCEPT !.produced = @ + 1, !.ctl = "panic"]
         ELSE [b EXCEPT !.produced = @ + 1, !.text = @ \o text]
    [] b.mode = "Capacity" ->
         [b EXCEPT !.produced = @ + 1, !.capacity = @ + Len(text)]
    [] b.mode = "Format" ->
         LET w == write_str(b.fmtr, text)
         IN IF ~w.res.ok
            THEN [b EXCEPT !.produced = @ + 1, !.fmtr = w.f,
                           !.mode = "FormatError", !.error = w.res,
                           !.capacity = @ + Len(text)]
            ELSE [b EXCEPT !.produced = @ + 1, !.fmtr = w.f,
                           !.capacity = @ + Len(text)]
    [] b.mode = "FormatError" ->
         [b EXCEPT !.produced = @ + 1, !.capacity = @ + Len(text)]

\* append_owned_unsafe without the debug_assert_eq! of its Mode::Text arm
append_owned_unsafe_NoAssert(b, size, text) ==
  CASE b.mode = "Text" -> [b EXCEPT !.produced = @ + 1, !.text = @ \o text]
    [] b.mode = "Capacity" -> [b EXCEPT !.capacity = @ + size]
    [] b.mode = "Format" ->
         LET w == write_str(b.fmtr, text)
         IN IF ~w.res.ok
            THEN [b EXCEPT !.produced = @ + 1, !.fmtr = w.f,
                           !.mode = "FormatError", !.error = w.res,
                           !.capacity = @ + size]
            ELSE [b EXCEPT !.produced = @ + 1, !.fmtr = w.f,
                           !.capacity = @ + size]
    [] b.mode = "FormatError" -> [b EXCEPT !.capacity = @ + size]

\* StringBuilder::append_owned_unsafe; text is what the producer returns
append_owned_unsafe(b, size, text) ==
  CASE b.mode = "Text" ->
         IF b.debug /\ Len(text) # size
         THEN [b EXCEPT !.produced = @ + 1, !.ctl = "panic"]
         ELSE [b EXCEPT !.produced = @ + 1, !.text = @ \o text]
    [] b.mode = "Capacity" -> [b EXCEPT !.capacity = @ + size]
    [] b.mode = "Format" ->
         LET w == write_str(b.fmtr, text)
         IN IF ~w.res.ok
            THEN [b EXCEPT !.produced = @ + 1, !.fmtr = w.f,
                           !.mode = "FormatError", !.error = w.res,
                           !.capacity = @ + size]
            ELSE [b EXCEPT !.produced = @ + 1, !.fmtr = w.f,
                           !.capacity = @ + size]
    [] b.mode = "FormatError" -> [b EXCEPT !.capacity = @ + size]

\* append_value whose Filling arm only counts, as the Measuring arm does
append_value_NoPush(b, value) ==
  CASE b.mode \in {"Text", "Capacity", "FormatError"} ->
         [b EXCEPT !.capacity = @ + string_byte_len(value)]
    [] b.mode = "Format" ->
         LET w == write_to_formatter(value, b.fmtr)
         IN IF ~w.res.ok
            THEN [b EXCEPT !.fmtr = w.f, !.mode = "FormatError",
                           !.error = w.res,
                           !.capacity = @ + string_byte_len(value)]
            ELSE [b EXCEPT !.fmtr = w.f,
                           !.capacity = @ + string_byte_len(value)]

\* append_value that goes on writing to the formatter after a failed write
append_value_KeepsWriting(b, value) ==
  CASE b.mode = "Text" ->
         IF string_push_to_panics(value) THEN [b EXCEPT !.ctl = "panic"]
         ELSE [b EXCEPT !.text = string_push_to(value, @)]
    [] b.mode = "Capacity" ->
         [b EXCEPT !.capacity = @ + string_byte_len(value)]
    [] b.mode \in {"Format", "FormatError"} ->
         LET w == write_to_formatter(value, b.fmtr)
         IN IF ~w.res.ok /\ b.mode = "Format"
            THEN [b EXCEPT !.fmtr = w.f, !.mode = "FormatError",
                           !.error = w.res,
                           !.capacity = @ + string_byte_len(value)]
            ELSE [b EXCEPT !.fmtr = w.f,
                           !.capacity = @ + string_byte_len(value)]

\* append_value that leaves the failed state at the next append
append_value_Recovers(b, value) ==
  CASE b.mode = "Text" ->
         IF string_push_to_panics(value) THEN [b EXCEPT !.ctl = "panic"]
         ELSE [b EXCEPT !.text = string_push_to(value, @)]
    [] b.mode = "Capacity" ->
         [b EXCEPT !.capacity = @ + string_byte_len(value)]
    [] b.mode = "Format" ->
         LET w == write_to_formatter(value, b.fmtr)
         IN IF ~w.res.ok
            THEN [b EXCEPT !.fmtr = w.f, !.mode = "FormatError",
                           !.error = w.res,
                           !.capacity = @ + string_byte_len(value)]
            ELSE [b EXCEPT !.fmtr = w.f,
                           !.capacity = @ + string_byte_len(value)]
    [] b.mode = "FormatError" ->
         [b EXCEPT !.mode = "Format", !.error = Ok,
                   !.capacity = @ + string_byte_len(value)]

\* StringBuilder::append_value
append_value(b, value) ==
  CASE b.mode = "Text" ->
         IF string_push_to_panics(value) THEN [b EXCEPT !.ctl = "panic"]
         ELSE [b EXCEPT !.text = string_push_to(value, @)]
    [] b.mode = "Capacity" ->
         [b EXCEPT !.capacity = @ + string_byte_len(value)]
    [] b.mode = "Format" ->
         LET w == write_to_formatter(value, b.fmtr)
         IN IF ~w.res.ok
            THEN [b EXCEPT !.fmtr = w.f, !.mode = "FormatError",
                           !.error = w.res,
                           !.capacity = @ + string_byte_len(value)]
            ELSE [b EXCEPT !.fmtr = w.f,
                           !.capacity = @ + string_byte_len(value)]
    [] b.mode = "FormatError" ->
         [b EXCEPT !.capacity = @ + string_byte_len(value)]

RECURSIVE append_parts(_, _)

\* StringBuilder::append (StringAppendable::append_to_builder): a &Box<str>
\* appends its str, every StringAppendableValue goes to append_value
RECURSIVE string_append(_, _)
string_append(b, value) ==
  CASE value.t = "&Box<str>" ->
         append_value(b, [t |-> "&str", s |-> value.s])
    [] value.t = "&MyStruct" -> append_parts(b, value.parts)
    [] OTHER -> append_value(b, value)

\* append_to_builder of a composite value (the tests' &MyStruct): one
\* builder.append per part, in order
append_parts(b, parts) ==
  IF parts = <<>> \/ b.ctl # "run" THEN b
  ELSE append_parts(string_append(b, Head(parts)), Tail(parts))

\* StringBuilder::len
string_len(b) ==
  IF b.mode = "Text" THEN Len(b.text) ELSE b.capacity

\* ------------------------------------------------------------------------
\* BytesBuilder: mode "Capacity" is bytes = None, mode "Text" is bytes = Some
\* ------------------------------------------------------------------------

\* impl BytesAppendable for T: BytesAppendableValue
bytes_append_value(b, value) ==
  IF b.mode = "Text"
  THEN [b EXCEPT !.text = bytes_push_to(value, @)]
  ELSE [b EXCEPT !.capacity = @ + bytes_byte_len(value)]

\* BytesBuilder::append: a &Box<[u8]> appends its slice
bytes_append(b, value) ==
  IF value.t = "&Box<[u8]>"
  THEN bytes_append_value(b, [t |-> "&[u8]", s |-> value.s])
  ELSE bytes_append_value(b, value)

\* std::mem::size_of::<$t>() (isize / usize of a 64-bit target)
size_of(ty) ==
  CASE ty \in {"i8", "u8"} -> 1
    [] ty \in {"i16", "u16"} -> 2
    [] ty \in {"i32", "u32"} -> 4
    [] ty \in {"i64", "u64", "isize", "usize"} -> 8
    [] ty \in {"i128", "u128"} -> 16

\* the k-th byte (0 = least significant) of the two's complement of n; the
\* modelled values fit 32 bits, above them only the sign extends
ByteOf(n, k) ==
  CASE k = 0 -> n % 256
    [] k = 1 -> (n \div 256) % 256
    [] k = 2 -> (n \div 65536) % 256
    [] k = 3 -> (n \div 16777216) % 256
    [] OTHER -> IF n < 0 THEN 255 ELSE 0

\* $t::to_le_bytes
to_le_bytes(ty, n) == [k \in 1..size_of(ty) |-> ByteOf(n, k - 1)]

\* $t::to_be_bytes
to_be_bytes(ty, n) == [k \in 1..size_of(ty) |-> ByteOf(n, size_of(ty) - k)]

\* append_be that pushes the little-endian bytes
append_be_PushesLe(b, value) ==
  IF b.mode = "Text"
  THEN [b EXCEPT !.text = @ \o to_le_bytes(value.ty, value.n)]
  ELSE [b EXCEPT !.capacity = @ + size_of(value.ty)]

\* BytesBuilder::append_be
append_be(b, value) ==
  IF b.mode = "Text"
  THEN [b EXCEPT !.text = @ \o to_be_bytes(value.ty, value.n)]
  ELSE [b EXCEPT !.capacity = @ + size_of(value.ty)]

\* BytesBuilder::append_le
append_le(b, value) ==
  IF b.mode = "Text"
  THEN [b EXCEPT !.text = @ \o to_le_bytes(value.ty, value.n)]
  ELSE [b EXCEPT !.capacity = @ + size_of(value.ty)]

\* BytesBuilder::len
bytes_len(b) ==
  IF b.mode = "Text" THEN Len(b.text) ELSE b.capacity

\* ------------------------------------------------------------------------
\* Inputs: the values and the append calls a build routine is made of
\* ------------------------------------------------------------------------

\* values appended to a StringBuilder
StringValues ==
  { [t |-> "&str", s |-> <<104, 105>>],           \* "hi"
    [t |-> "&String", s |-> <<>>],                \* ""
    [t |-> "&Cow<str>", s |-> <<195, 169>>],      \* "é"
    [t |-> "&Box<str>", s |-> <<97, 47>>],        \* "a/"
    [t |-> "char", c |-> 97],                     \* 'a'   (1 byte)
    [t |-> "char", c |-> 233],                    \* 'é'   (2 bytes)
    [t |-> "char", c |-> 8364],                   \* '€'   (3 bytes)
    [t |-> "char", c |-> 128512],                 \* U+1F600 (4 bytes)
    [t |-> "int", ty |-> "u8", n |-> 0],
    [t |-> "int", ty |-> "u16", n |-> 65535],
    [t |-> "int", ty |-> "i32", n |-> 2147483647],
    [t |-> "int", ty |-> "i64", n |-> -5],
    [t |-> "int", ty |-> "i8", n |-> -128],
    [t |-> "None"],
    [t |-> "Some", v |-> [t |-> "char", c |-> 233]],
    [t |-> "&MyStruct",                            \* "Hello", " there!"
     parts |-> << [t |-> "&str", s |-> <<72, 101, 108, 108, 111>>],
                  [t |-> "&str", s |-> <<32, 116, 104, 101, 114, 101, 33>>] >>] }

\* (value, from, to) of append_with_replace
ReplaceArgs ==
  { [value |-> <<>>, from |-> <<47>>, to |-> <<43>>],             \* "", "/", "+"
    [value |-> <<47, 47>>, from |-> <<47>>, to |-> <<43>>],       \* "//", "/", "+"
    [value |-> <<97, 47, 98>>, from |-> <<47>>, to |-> <<43>>],   \* "a/b", "/", "+"
    [value |-> <<97, 98, 47>>, from |-> <<97, 98>>, to |-> <<99>>],  \* "ab/", "ab", "c"
    [value |-> <<97, 47>>, from |-> <<47>>, to |-> <<43, 43>>],   \* "a/", "/", "++"
    [value |-> <<47, 97, 47>>, from |-> <<47>>, to |-> <<43, 43>>],  \* "/a/", "/", "++"
    [value |-> <<47, 47>>, from |-> <<47>>, to |-> <<>>],         \* "//", "/", ""
    [value |-> <<97>>, from |-> <<47>>, to |-> <<43, 43>>],       \* "a", "/", "++"
    [value |-> <<>>, from |-> <<47>>, to |-> <<43, 43>>],         \* "", "/", "++"
    [value |-> <<>>, from |-> <<47, 47>>, to |-> <<43>>],         \* "", "//", "+"
    [value |-> <<>>, from |-> <<>>, to |-> <<>>],                 \* "", "", ""
    [value |-> <<97>>, from |-> <<>>, to |-> <<43>>] }            \* "a", "", "+"

\* (size, text the producer returns) of append_owned_unsafe
OwnedArgs ==
  { [size |-> 2, text |-> <<48, 49>>],        \* 2, "01"
    [size |-> 3, text |-> <<48, 49>>] }       \* 3, "01": a wrong size

StringOps ==
  {[op |-> "append", value |-> v] : v \in StringValues}
  \cup {[op |-> "append_with_replace", value |-> a.value, from |-> a.from,
         to |-> a.to] : a \in ReplaceArgs}
  \cup {[op |-> "append_owned_unsafe", size |-> a.size, text |-> a.text] :
         a \in OwnedArgs}

\* a routine handed to fmt may also append the value whose write fails
FmtOps == StringOps \cup {[op |-> "append", value |-> [t |-> "AppendableError"]]}

\* values appended to a BytesBuilder
BytesValues ==
  { [t |-> "&str", s |-> <<104, 105>>],
    [t |-> "&String", s |-> <<97>>],
    [t |-> "&Cow<str>", s |-> <<>>],
    [t |-> "char", c |-> 8364],
    [t |-> "&Vec<u8>", s |-> <<1, 2>>],
    [t |-> "[u8]", s |-> <<>>],
    [t |-> "&[u8]", s |-> <<255>>],
    [t |-> "[u8; N]", s |-> <<0, 0, 7>>],
    [t |-> "&[u8; N]", s |-> <<9>>],
    [t |-> "&Box<[u8]>", s |-> <<3, 4>>],
    [t |-> "u8", n |-> 200],
    [t |-> "None"],
    [t |-> "Some", v |-> [t |-> "u8", n |-> 5]] }

\* integers appended with append_be / append_le
EndianValues ==
  { [ty |-> "i32", n |-> 6],
    [ty |-> "i32", n |-> 8],
    [ty |-> "i16", n |-> -2],
    [ty |-> "u16", n |-> 513],
    [ty |-> "u64", n |-> 258],
    [ty |-> "i128", n |-> -3] }

BytesOps ==
  {[op |-> "append", value |-> v] : v \in BytesValues}
  \cup {[op |-> "append_be", value |-> v] : v \in EndianValues}
  \cup {[op |-> "append_le", value |-> v] : v \in EndianValues}

StringTypes == {"String", "Box<str>"}

\* the containers of the features "ecow" and "hipstr"
FeatureStringTypes == {"EcoString", "HipStr"}
BytesTypes == {"Vec<u8>", "Box<[u8]>"}

Routines(ops) == UNION {[1..n -> ops] : n \in 0..MaxOps}

\* outcomes of the sink's next write calls during one append
MaxScript == 3
Scripts == [1..MaxScript -> BOOLEAN]

\* ------------------------------------------------------------------------
\* State
\* ------------------------------------------------------------------------
VARIABLES
  api,       \* "build" or "fmt": the entry point that was called
  T,         \* the container type parameter (TString / TBytes)
  debug,     \* build profile: debug assertions and overflow checks enabled
  routine,   \* the closure: the append calls it makes, in order
  pc,        \* "routine" (the closure is running), "returned", "panicked",
             \* "diverged"
  pass,      \* how many times the closure has been invoked
  idx,       \* the next append call of the running invocation
  capacity,  \* builder.capacity
  mode,      \* builder.mode (for a BytesBuilder: bytes is None / Some)
  error,     \* the error held by Mode::FormatError
  text,      \* the local buffer `text` / `bytes` of build
  fmtr,      \* the formatter handed to fmt
  produced,  \* number of producer invocations of append_owned_unsafe
  lens1,     \* len() seen after each append of the first invocation
  lens2,     \* len() seen after each append of the second invocation
  result,    \* what the entry point returned
  scan       \* the locals of a running scan loop of append_with_replace:
             \* pc ("idle", "find", "body", "rest"), start, pos, size

vars == <<api, T, debug, routine, pc, pass, idx, capacity, mode, error, text,
          fmtr, produced, lens1, lens2, result, scan>>

IsBytes == T \in BytesTypes

\* no scan loop is running; `let mut start = 0; let mut size = 0;`
ScanIdle == [pc |-> "idle", start |-> 0, pos |-> -1, size |-> 0]

NoResult == [tag |-> "None"]

Init ==
  /\ \/ /\ api = "build"
        /\ T \in StringTypes \cup FeatureStringTypes
        /\ routine \in Routines(StringOps)
     \/ api = "build" /\ T \in BytesTypes /\ routine \in Routines(BytesOps)
     \/ api = "fmt" /\ T = "String" /\ routine \in Routines(FmtOps)
  /\ debug \in BOOLEAN
  /\ pc = "routine"
  /\ pass = 1
  /\ idx = 1
  /\ capacity = 0
  /\ mode = IF api = "build" THEN "Capacity" ELSE "Format"
  /\ error = Ok
  /\ text = <<>>
  /\ fmtr = [out |-> <<>>, calls |-> 0, script |-> <<>>, failed |-> <<>>]
  /\ produced = 0
  /\ lens1 = <<>>
  /\ lens2 = <<>>
  /\ result = NoResult
  /\ scan = ScanIdle

\* the builder as the running closure sees it, the sink following `script`
Builder(script) ==
  [capacity |-> capacity, mode |-> mode, error |-> error, text |-> text,
   fmtr |-> [fmtr EXCEPT !.script = script], ctl |-> "run",
   produced |-> produced, debug |-> debug]

\* the state after an append call that took the builder to b
Commit(b) ==
  /\ capacity' = b.capacity
  /\ mode' = b.mode
  /\ error' = b.error
  /\ text' = b.text
  /\ fmtr' = [b.fmtr EXCEPT !.script = <<>>]
  /\ produced' = b.produced
  /\ IF b.ctl = "run"
     THEN /\ pc' = pc
          /\ idx' = idx + 1
          /\ LET n == IF IsBytes THEN bytes_len(b) ELSE string_len(b)
             IN IF pass = 1
                THEN lens1' = Append(lens1, n) /\ lens2' = lens2
                ELSE lens2' = Append(lens2, n) /\ lens1' = lens1
     ELSE /\ pc' = IF b.ctl = "panic" THEN "panicked" ELSE "diverged"
          /\ UNCHANGED <<idx, lens1, lens2>>
  /\ scan' = ScanIdle
  /\ UNCHANGED <<api, T, debug, routine, pass, result>>

Running == pc = "routine" /\ idx <= Len(routine)

ScriptChoices == IF mode = "Format" THEN Scripts ELSE {<<>>}

\* builder.append(value)
Append_ ==
  /\ Running
  /\ routine[idx].op = "append"
  /\ \E script \in ScriptChoices :
       Commit(IF IsBytes
              THEN bytes_append(Builder(script), routine[idx].value)
              ELSE string_append(Builder(script), routine[idx].value))

\* builder.append_with_replace(value, from, to)
AppendWithReplace ==
  /\ Running
  /\ routine[idx].op = "append_with_replace"
  /\ \E script \in ScriptChoices :
       Commit(append_with_replace(Builder(script), routine[idx].value,
                                  routine[idx].from, routine[idx].to))

\* builder.append_owned_unsafe(size, || text)
AppendOwnedUnsafe ==
  /\ Running
  /\ routine[idx].op = "append_owned_unsafe"
  /\ \E script \in ScriptChoices :
       Commit(append_owned_unsafe(Builder(script), routine[idx].size,
                                  routine[idx].text))

\* builder.append_be(value)
AppendBe ==
  /\ Running
  /\ routine[idx].op = "append_be"
  /\ Commit(append_be(Builder(<<>>), routine[idx].value))

\* builder.append_le(value)
AppendLe ==
  /\ Running
  /\ routine[idx].op = "append_le"
  /\ Commit(append_le(Builder(<<>>), routine[idx].value))

\* TString::with_capacity / TBytes::with_capacity for String, Box<str>,
\* Vec<u8>, Box<[u8]>: try_reserve_exact fails for a size above isize::MAX
\* (here: a wrapped size) and may fail for any other size
with_capacity_results(size) ==
  IF size < 0 THEN {FALSE} ELSE BOOLEAN

\* bytes an EcoString / a HipStr holds inline, without an allocation
InlineLimit(ty) == IF ty = "EcoString" THEN 15 ELSE 23

\* TString::with_capacity(size) as build sees it: "Ok", "Err" (a
\* TryReserveError), "panic" or "abort". For EcoString and HipStr it is
\* Ok(X::with_capacity(size)): a size above isize::MAX panics (capacity
\* overflow), an allocation that fails aborts the process, and no Err is
\* ever made.
with_capacity(ty, size) ==
  IF ty \in FeatureStringTypes
  THEN IF size < 0 THEN {"panic"}
       ELSE IF size <= InlineLimit(ty) THEN {"Ok"}
       ELSE {"Ok", "abort"}
  ELSE {IF ok THEN "Ok" ELSE "Err" : ok \in with_capacity_results(size)}

\* with_capacity did not return: build is left by unwinding or the process
\* ends
AllocStops(r) ==
  /\ pc' = IF r = "panic" THEN "panicked" ELSE "aborted"
  /\ UNCHANGED <<text, mode, pass, idx, result>>

\* from_mut: the final form of the container
from_mut(ty, inner) == [ty |-> ty, data |-> inner]

\* build that does not return at a failed reservation (no `?`): it goes on
\* to the Filling pass with an unreserved buffer
Allocate_IgnoresFailure ==
  /\ api = "build" /\ pc = "routine" /\ pass = 1 /\ idx > Len(routine)
  /\ \E r \in with_capacity(T, capacity) :
       IF r \in {"Ok", "Err"}
       THEN /\ text' = <<>>
            /\ mode' = "Text"
            /\ pass' = 2
            /\ idx' = 1
            /\ pc' = pc
            /\ result' = IF r = "Ok" THEN result
                         ELSE [tag |-> "Err",
                               err |-> [by |-> "TryReserveError"]]
       ELSE AllocStops(r)
  /\ UNCHANGED <<api, T, debug, routine, capacity, error, fmtr, produced,
                 lens1, lens2, scan>>

\* build that allocates and switches to Mode::Text but does not invoke the
\* closure a second time
Allocate_SkipsFilling ==
  /\ api = "build" /\ pc = "routine" /\ pass = 1 /\ idx > Len(routine)
  /\ \E r \in with_capacity(T, capacity) :
       CASE r = "Ok" ->
              /\ text' = <<>>
              /\ mode' = "Text"
              /\ pass' = 2
              /\ UNCHANGED <<pc, result, idx>>
         [] r = "Err" ->
              /\ pc' = "returned"
              /\ result' = [tag |-> "Err",
                            err |-> [by |-> "TryReserveError"]]
              /\ UNCHANGED <<text, mode, pass, idx>>
         [] OTHER -> AllocStops(r)
  /\ UNCHANGED <<api, T, debug, routine, capacity, error, fmtr, produced,
                 lens1, lens2, scan>>

\* build, between the two invocations: allocate, switch to Mode::Text and
\* invoke the closure again; or return the allocation error
Allocate ==
  /\ api = "build" /\ pc = "routine" /\ pass = 1 /\ idx > Len(routine)
  /\ \E r \in with_capacity(T, capacity) :
       CASE r = "Ok" ->
              /\ text' = <<>>
              /\ mode' = "Text"
              /\ pass' = 2
              /\ idx' = 1
              /\ UNCHANGED <<pc, result>>
         [] r = "Err" ->
              /\ pc' = "returned"
              /\ result' = [tag |-> "Err",
                            err |-> [by |-> "TryReserveError"]]
              /\ UNCHANGED <<text, mode, pass, idx>>
         [] OTHER -> AllocStops(r)
  /\ UNCHANGED <<api, T, debug, routine, capacity, error, fmtr, produced,
                 lens1, lens2, scan>>

\* build, after the second invocation: debug_assert_eq!, from_mut, return
BuildReturn ==
  /\ api = "build" /\ pc = "routine" /\ pass = 2 /\ idx > Len(routine)
  /\ IF debug /\ capacity # Len(text)
     THEN pc' = "panicked" /\ UNCHANGED result
     ELSE /\ pc' = "returned"
          /\ result' = [tag |-> "Ok", val |-> from_mut(T, text)]
  /\ UNCHANGED <<api, T, debug, routine, pass, idx, capacity, mode, error,
                 text, fmtr, produced, lens1, lens2, scan>>

\* fmt, after the closure returned: the match on state.mode
FmtReturn ==
  /\ api = "fmt" /\ pc = "routine" /\ idx > Len(routine)
  /\ CASE mode = "Format" ->
            pc' = "returned" /\ result' = [tag |-> "Ok"]
       [] mode = "FormatError" ->
            pc' = "returned" /\ result' = [tag |-> "Err", err |-> error]
       [] mode \in {"Capacity", "Text"} ->
            pc' = "panicked" /\ UNCHANGED result
  /\ UNCHANGED <<api, T, debug, routine, pass, idx, capacity, mode, error,
                 text, fmtr, produced, lens1, lens2, scan>>

Next ==
  \/ Append_
  \/ AppendWithReplace
  \/ AppendOwnedUnsafe
  \/ AppendBe
  \/ AppendLe
  \/ Allocate
  \/ BuildReturn
  \/ FmtReturn

Spec == Init /\ [][Next]_vars

\* ------------------------------------------------------------------------
\* The scan loop of append_with_replace, one step per loop position
\* ------------------------------------------------------------------------
\* The same calls as above with the loop of the Mode::Text arm and of
\* format_with_replace unfolded: "find" is the loop head (the evaluation of
\* value[start..].find(from)), "body" the loop body, "rest" the code after
\* the loop.

\* number of append_with_replace calls of the routine
MaxScanOps == 1

\* bytes the buffer or the sink can hold before memory is exhausted
MaxBuf == 12

\* write calls the model follows on one sink
MaxWrites == 16

\* start += pos, the match itself not stepped over
scan_advance_KeepsMatch(start, pos, from) == start + pos

\* start += pos + from.len()
scan_advance(start, pos, from) == start + pos + Len(from)

\* the Err(e) arm of the match on format_with_replace's result
format_failed(b, f, res, a) ==
  add_calculated([b EXCEPT !.fmtr = f, !.mode = "FormatError",
                           !.error = res],
                 a.value, a.from, a.to, TRUE)

\* a step inside the loop: only the buffer, the sink and the locals change
ScanStep(t, f, sc, p) ==
  /\ text' = t
  /\ fmtr' = [f EXCEPT !.script = <<>>]
  /\ scan' = sc
  /\ pc' = p
  /\ UNCHANGED <<api, T, debug, routine, pass, idx, capacity, mode, error,
                 produced, lens1, lens2, result>>

InitScan ==
  /\ Init
  /\ T = "String"
  /\ Len(routine) <= MaxScanOps
  /\ \A i \in 1..Len(routine) : routine[i].op = "append_with_replace"

\* append_with_replace in Mode::Capacity | Mode::FormatError: no loop
MeasureWithReplace ==
  /\ mode \in {"Capacity", "FormatError"}
  /\ AppendWithReplace

\* append_with_replace in Mode::Text / Mode::Format: entry of the loop
ScanEnter ==
  /\ Running
  /\ routine[idx].op = "append_with_replace"
  /\ mode \in {"Text", "Format"}
  /\ scan.pc = "idle"
  /\ ScanStep(text, fmtr, [ScanIdle EXCEPT !.pc = "find"], pc)

\* while let Some(pos) = value[start..].find(from): the slice panics when
\* start is beyond the end of value
ScanFind ==
  /\ pc = "routine"
  /\ scan.pc = "find"
  /\ LET a == routine[idx]
     IN IF scan.start > Len(a.value)
        THEN ScanStep(text, fmtr, scan, "panicked")
        ELSE LET pos == Find(SliceFrom(a.value, scan.start), a.from)
             IN ScanStep(text, fmtr,
                         [scan EXCEPT !.pos = pos,
                                      !.pc = IF pos = -1 THEN "rest"
                                                         ELSE "body"],
                         pc)

\* the loop body: push / write value[start..start + pos] and `to`, advance
\* start; a failed write returns from format_with_replace with the error
ScanBody ==
  /\ pc = "routine"
  /\ scan.pc = "body"
  /\ fmtr.calls + 2 <= MaxWrites
  /\ LET a == routine[idx]
         seg == Slice(a.value, scan.start, scan.start + scan.pos)
         next == scan_advance(scan.start, scan.pos, a.from)
     IN IF mode = "Text"
        THEN LET grown == (text \o seg) \o a.to
             IN IF Len(grown) > MaxBuf
                THEN ScanStep(text, fmtr, scan, "aborted")
                ELSE ScanStep(grown, fmtr,
                              [scan EXCEPT !.pc = "find", !.start = next],
                              pc)
        ELSE \E script \in [1..2 -> BOOLEAN] :
               LET b == Builder(script)
                   w1 == write_str(b.fmtr, seg)
                   w2 == write_str(w1.f, a.to)
               IN IF ~w1.res.ok
                  THEN Commit(format_failed(b, w1.f, w1.res, a))
                  ELSE IF ~w2.res.ok
                  THEN Commit(format_failed(b, w2.f, w2.res, a))
                  ELSE IF Len(w2.f.out) > MaxBuf
                  THEN ScanStep(text, fmtr, scan, "aborted")
                  ELSE ScanStep(text, w2.f,
                                [scan EXCEPT !.pc = "find", !.start = next,
                                             !.size = @ + scan.pos
                                                        + Len(a.to)],
                                pc)

\* after the loop: push / write value[start..]; Ok(size) is added to capacity
ScanRest ==
  /\ pc = "routine"
  /\ scan.pc = "rest"
  /\ LET a == routine[idx]
         remaining == SliceFrom(a.value, scan.start)
     IN IF mode = "Text"
        THEN Commit([Builder(<<>>) EXCEPT !.text = @ \o remaining])
        ELSE \E script \in [1..1 -> BOOLEAN] :
               LET b == Builder(script)
                   w == write_str(b.fmtr, remaining)
               IN IF w.res.ok
                  THEN Commit([b EXCEPT !.fmtr = w.f,
                                        !.capacity = @ + scan.size
                                                       + Len(remaining)])
                  ELSE Commit(format_failed(b, w.f, w.res, a))

NextScan ==
  \/ MeasureWithReplace
  \/ ScanEnter
  \/ ScanFind
  \/ ScanBody
  \/ ScanRest
  \/ Allocate
  \/ BuildReturn
  \/ FmtReturn

\* the calls run sequentially on one thread: a step that can be taken is
\* taken
SpecScan == InitScan /\ [][NextScan]_vars /\ WF_vars(NextScan)

\* ------------------------------------------------------------------------
\* Reference notions used by the properties
\* ------------------------------------------------------------------------

\* the append call the running invocation is about to make
AtOp(name) == Running /\ routine[idx].op = name

\* every append_owned_unsafe of the routine is given the true length
OwnedSizesTrue ==
  \A i \in 1..Len(routine) :
    routine[i].op = "append_owned_unsafe" => routine[i].size = Len(routine[i].text)

\* the point of build where debug_assert_eq!(state.capacity, text.len()) stands
AtBuildAssert ==
  api = "build" /\ pc = "routine" /\ pass = 2 /\ idx > Len(routine)

\* what a naive push of one text slice, char, byte slice or boxed value adds
PlainKinds == StrLike \cup SliceLike \cup {"char", "&Box<str>", "&Box<[u8]>"}

NaiveEncoding(value) ==
  IF value.t = "char" THEN encode_utf8(value.c) ELSE value.s

RECURSIVE NaiveConcat(_)
NaiveConcat(ops) ==
  IF ops = <<>> THEN <<>>
  ELSE NaiveEncoding(Head(ops).value) \o NaiveConcat(Tail(ops))

PlainRoutine ==
  \A i \in 1..Len(routine) :
    routine[i].op = "append" /\ routine[i].value.t \in PlainKinds

\* s with every non-overlapping occurrence of a non-empty `from`, met while
\* reading s left to right one unit at a time, replaced by `to`
RECURSIVE ReplaceAll(_, _, _)
ReplaceAll(s, from, to) ==
  IF s = <<>> THEN <<>>
  ELSE IF Len(from) <= Len(s) /\ SubSeq(s, 1, Len(from)) = from
    THEN to \o ReplaceAll(SubSeq(s, Len(from) + 1, Len(s)), from, to)
    ELSE <<Head(s)>> \o ReplaceAll(Tail(s), from, to)

\* number of those occurrences
RECURSIVE Occurrences(_, _)
Occurrences(s, from) ==
  IF s = <<>> THEN 0
  ELSE IF Len(from) <= Len(s) /\ SubSeq(s, 1, Len(from)) = from
    THEN 1 + Occurrences(SubSeq(s, Len(from) + 1, Len(s)), from)
    ELSE Occurrences(Tail(s), from)

\* ------------------------------------------------------------------------
\* Properties
\* ------------------------------------------------------------------------

\* C1: where build asserts state.capacity == text.len(), after the Filling
\* pass of a routine of public appends (append_owned_unsafe given the true
\* length), the buffer's length equals the capacity of the Measuring pass.
C1_AssertionHolds ==
  (AtBuildAssert /\ OwnedSizesTrue) => capacity = Len(text)

\* C2: the container build returns for a routine that appends text slices,
\* chars, byte slices and boxed strings / slices is the in-order
\* concatenation of their encodings, as naive sequential pushes give.
C2_BuildIsNaiveConcat ==
  (api = "build" /\ result.tag = "Ok" /\ PlainRoutine)
    => result.val = [ty |-> T, data |-> NaiveConcat(routine)]

C2_Witness ==
  /\ api = "build" /\ result.tag = "Ok" /\ PlainRoutine
  /\ Len(routine) >= 2
  /\ routine[1].value.t = "char" /\ len_utf8(routine[1].value.c) > 1
  /\ routine[2].value.t \in {"&Box<str>", "&Box<[u8]>"}

\* C3: within one fmt call, once a write has failed the sink is not written
\* again: the failed write is the last call the sink ever receives, only one
\* failure is ever returned, and the sink keeps exactly what it held then.
C3_NoWriteAfterFailure ==
  /\ [](fmtr.failed # <<>> =>
          Len(fmtr.failed) = 1 /\ fmtr.calls = fmtr.failed[1].at)
  /\ [][fmtr.failed # <<>> => fmtr' = fmtr]_vars

\* a write fails in the middle of the first append after the sink accepted
\* some text, then an append of "hi" runs and fmt returns
C3_Witness ==
  /\ api = "fmt" /\ pc = "returned" /\ result.tag = "Err"
  /\ Len(routine) = 2
  /\ routine[2] = [op |-> "append", value |-> [t |-> "&str", s |-> <<104, 105>>]]
  /\ fmtr.out # <<>>
  /\ fmtr.failed # <<>>

\* C4: fmt returns Err(e) exactly when a write failed during the call, e
\* being the error of the first failed write, and Ok(()) otherwise; nothing
\* is returned before the routine has made all its append calls.
C4_FmtResult ==
  /\ (api = "fmt" /\ pc = "returned") =>
       result = IF fmtr.failed = <<>> THEN [tag |-> "Ok"]
                ELSE [tag |-> "Err", err |-> fmtr.failed[1]]
  /\ (api = "fmt" /\ result # NoResult) =>
       (pc = "returned" /\ idx = Len(routine) + 1 /\ Len(lens1) = Len(routine))

\* fmt returned the error of a write that failed in the first of two appends
C4_Witness ==
  /\ api = "fmt" /\ result.tag = "Err"
  /\ Len(routine) = 2
  /\ result.err.by = "sink" /\ result.err.at = 1
  /\ fmtr.calls = 1

\* C5: in the Filling pass append_with_replace(source, from, to) with a
\* non-empty `from` pushes source with every non-overlapping occurrence of
\* `from`, found left to right, replaced by `to`, after what the buffer
\* already holds.
C5_FillReplaces ==
  [][(AtOp("append_with_replace") /\ mode = "Text" /\ routine[idx].from # <<>>)
       => /\ pc' = "routine" /\ idx' = idx + 1
          /\ text' = text \o ReplaceAll(routine[idx].value, routine[idx].from,
                                        routine[idx].to)]_vars

\* "hi" then "//" with "/" replaced by "+" was built: "hi++"
C5_Witness ==
  /\ api = "build" /\ result.tag = "Ok" /\ Len(routine) = 2
  /\ routine[1].op = "append" /\ routine[2].op = "append_with_replace"
  /\ Occurrences(routine[2].value, routine[2].from) = 2
  /\ routine[2].to # <<>>
  /\ result.val.data = <<104, 105>> \o routine[2].to \o routine[2].to

\* C6: in Measuring mode append_with_replace(source, from, to) adds
\* len(source) when len(from) = len(to), and otherwise len(source) +
\* occurrences * (len(to) - len(from)), occurrences being the number of
\* non-overlapping left-to-right matches of `from` in source: the number of
\* bytes the Filling pass pushes.
C6_MeasureReplace ==
  [][(AtOp("append_with_replace") /\ mode = "Capacity" /\ routine[idx].from # <<>>)
       => LET a == routine[idx]
              occ == Occurrences(a.value, a.from)
          IN /\ pc' = "routine"
             /\ capacity' = capacity +
                  (IF Len(a.from) = Len(a.to) THEN Len(a.value)
                   ELSE Len(a.value) + occ * (Len(a.to) - Len(a.from)))
             /\ capacity' = capacity + Len(ReplaceAll(a.value, a.from, a.to))]_vars

\* C7: append_with_replace with an empty source adds nothing to capacity in
\* Measuring mode, pushes nothing in Filling mode and writes no text to the
\* sink in Formatting mode, for every `from` and `to`.
C7_EmptySource ==
  [][(AtOp("append_with_replace") /\ routine[idx].value = <<>>)
       => /\ pc' = "routine"
          /\ mode = "Capacity" => capacity' = capacity
          /\ mode = "Text" => text' = text
          /\ mode = "Format" => fmtr'.out = fmtr.out]_vars

\* C8: for every integer value, byte_len equals the number of bytes of
\* decimal text that push_to and write_to_formatter write for it.
C8_IntByteLen ==
  [][(AtOp("append") /\ routine[idx].value.t = "int")
       => LET v == routine[idx].value
          IN /\ mode = "Capacity" =>
                  capacity' = capacity + Len(itoa_format(v.n))
             /\ mode = "Text" =>
                  Len(text') = Len(text) + string_byte_len(v)
             /\ (mode = "Format" /\ fmtr'.failed = <<>>) =>
                  Len(fmtr'.out) = Len(fmtr.out) + string_byte_len(v)]_vars

C10_LenAgrees ==
  (api = "build" /\ OwnedSizesTrue) =>
    \A i \in 1..Len(lens2) : lens2[i] = lens1[i]

\* C11: when the exact-capacity reservation fails, build returns the
\* allocation error at once: the routine has been invoked once, in Measuring
\* mode, the builder never enters Filling mode, nothing is pushed and no
\* container is returned; nothing happens after that return.
C11_AllocationFailure ==
  /\ []((api = "build" /\ result.tag = "Err") =>
          /\ result = [tag |-> "Err", err |-> [by |-> "TryReserveError"]]
          /\ pc = "returned"
          /\ pass = 1 /\ mode = "Capacity"
          /\ Len(lens1) = Len(routine) /\ lens2 = <<>>
          /\ text = <<>> /\ produced = 0)
  /\ [][(api = "build" /\ result.tag = "Err") => UNCHANGED vars]_vars
  /\ [][(api = "build" /\ pass = 1 /\ pc = "routine" /\ pc' = "returned")
          => result'.tag = "Err"]_vars

\* a two-append routine measured a positive capacity and the reservation failed
C11_Witness ==
  /\ api = "build" /\ result.tag = "Err"
  /\ Len(routine) = 2 /\ capacity > 0
  /\ \E i \in 1..2 : routine[i].op = "append_owned_unsafe"

\* the number a sequence of digits in base 256 stands for, first digit most
\* significant
RECURSIVE Base256(_)
Base256(ds) ==
  IF ds = <<>> THEN 0
  ELSE Base256(SubSeq(ds, 1, Len(ds) - 1)) * 256 + ds[Len(ds)]

\* bs, most significant byte first, is the two's complement (signed type) or
\* binary (unsigned type) representation of n; n fits 32 bits, so of a wider
\* representation only the last four bytes carry value
Represents(bs, ty, n) ==
  LET w == Len(bs)
      k == IF w < 4 THEN w ELSE 4
      low == SubSeq(bs, w - k + 1, w)
      high == SubSeq(bs, 1, w - k)
      signed == ty \in {"i8", "i16", "i32", "i64", "i128", "isize"}
      top == IF low[1] >= 128 THEN low[1] - 256 ELSE low[1]
      sv == Base256(<<top>> \o Tail(low))
  IN /\ w = size_of(ty)
     /\ \A i \in 1..Len(bs) : bs[i] \in 0..255
     /\ IF w < 4
        THEN n = IF signed \/ sv >= 0 THEN sv
                 ELSE sv + (IF w = 1 THEN 256 ELSE IF w = 2 THEN 65536 ELSE 16777216)
        ELSE /\ n = sv
             /\ signed \/ sv >= 0
             /\ \A i \in 1..Len(high) : high[i] = IF sv < 0 THEN 255 ELSE 0

Reverse(bs) == [i \in 1..Len(bs) |-> bs[Len(bs) + 1 - i]]

\* C12: for an integer of width w bytes append_be and append_le each add w
\* to capacity in the Measuring pass and push w bytes in the Filling pass,
\* most significant byte first for append_be, least significant byte first
\* for append_le, after what the buffer already holds.
C12_EndianAppend ==
  [][(AtOp("append_be") \/ AtOp("append_le"))
       => LET v == routine[idx].value
              pushed == SubSeq(text', Len(text) + 1, Len(text'))
          IN /\ pc' = "routine" /\ idx' = idx + 1
             /\ mode = "Capacity" =>
                  capacity' = capacity + size_of(v.ty) /\ text' = text
             /\ mode = "Text" =>
                  /\ capacity' = capacity
                  /\ Len(text') = Len(text) + size_of(v.ty)
                  /\ SubSeq(text', 1, Len(text)) = text
                  /\ IF routine[idx].op = "append_be"
                     THEN Represents(pushed, v.ty, v.n)
                     ELSE Represents(Reverse(pushed), v.ty, v.n)]_vars

\* 6i32 big-endian then 8i32 little-endian was built
C12_Witness ==
  /\ api = "build" /\ result.tag = "Ok"
  /\ routine = <<[op |-> "append_be", value |-> [ty |-> "i32", n |-> 6]],
                 [op |-> "append_le", value |-> [ty |-> "i32", n |-> 8]]>>
  /\ result.val.data = <<0, 0, 0, 6, 8, 0, 0, 0>>

\* C13: appending None leaves the builder as it was in every mode (no
\* capacity, no push, no sink call, no error state); appending Some(v) has
\* the effect of appending v.
C13_OptionAppend ==
  [][(AtOp("append") /\ routine[idx].value.t \in {"None", "Some"})
       => LET value == routine[idx].value
          IN /\ pc' = "routine" /\ idx' = idx + 1
             /\ value.t = "None" =>
                  /\ capacity' = capacity /\ text' = text /\ fmtr' = fmtr
                  /\ mode' = mode /\ error' = error
             /\ value.t = "Some" =>
                  \E script \in ScriptChoices :
                    LET b == IF IsBytes
                             THEN bytes_append(Builder(script), value.v)
                             ELSE string_append(Builder(script), value.v)
                    IN /\ capacity' = b.capacity /\ text' = b.text
                       /\ mode' = b.mode /\ error' = b.error
                       /\ fmtr' = [b.fmtr EXCEPT !.script = <<>>]]_vars

\* fmt wrote Some('é') and then appended None, still in Formatting mode
C13_Witness ==
  /\ api = "fmt" /\ pc = "routine" /\ idx = 3 /\ mode = "Format"
  /\ routine[1].value.t = "Some" /\ routine[2].value.t = "None"
  /\ fmtr.calls = 1 /\ fmtr.out = <<195, 169>> /\ capacity = 2

\* what an append call adds to capacity in Measuring mode
MeasureOf(op) ==
  LET b0 == [capacity |-> 0, mode |-> "Capacity", error |-> Ok, text |-> <<>>,
             fmtr |-> [out |-> <<>>, calls |-> 0, script |-> <<>>,
                       failed |-> <<>>],
             ctl |-> "run", produced |-> 0, debug |-> FALSE]
  IN CASE op.op = "append" -> string_append(b0, op.value).capacity
       [] op.op = "append_with_replace" ->
            append_with_replace(b0, op.value, op.from, op.to).capacity
       [] op.op = "append_owned_unsafe" ->
            append_owned_unsafe(b0, op.size, op.text).capacity

\* C14: in a fmt call the append whose write fails and every append after
\* it leave capacity at its value before the append plus what the append
\* contributes in Measuring mode: capacity is not reset.
C14_FmtCapacityAccumulates ==
  [][(api = "fmt" /\ Running /\ pc' = "routine" /\ mode' = "FormatError")
       => capacity' = capacity + MeasureOf(routine[idx])]_vars

\* C15: in Formatting mode, with no write failure, append_with_replace
\* writes to the sink the text the Filling pass pushes for the same
\* arguments and adds to capacity the number of bytes it wrote, which is
\* the amount the Measuring pass adds for the same arguments.
C15_FormatReplace ==
  [][(AtOp("append_with_replace") /\ mode = "Format"
        /\ routine[idx].from # <<>> /\ pc' = "routine" /\ mode' = "Format")
       => LET a == routine[idx]
              pushed == text_with_replace(<<>>, a.value, a.from, a.to, 0)
          IN /\ fmtr'.out = fmtr.out \o pushed
             /\ capacity' = capacity + Len(pushed)
             /\ capacity' = capacity + MeasureOf(a)]_vars

\* C16: the capacity computation of append_with_replace never underflows:
\* with len(from) > len(to) the amount subtracted is at most len(source),
\* so the contribution is a non-negative integer, computed without
\* wraparound and without an arithmetic panic.
C16_NoUnderflow ==
  [][(AtOp("append_with_replace") /\ mode = "Capacity"
        /\ Len(routine[idx].from) > Len(routine[idx].to))
       => /\ pc' = "routine"
          /\ capacity' >= capacity]_vars

\* C19: a build whose allocation succeeds invokes the routine exactly twice,
\* every append of the first invocation running in Measuring mode and every
\* append of the second in Filling mode; the second invocation starts only
\* once the first has made all its appends, at the allocation of the (empty)
\* buffer, and the passes never interleave. fmt invokes the routine once,
\* starting in Formatting mode.
C19_TwoPasses ==
  /\ [](/\ pass \in {1, 2}
        /\ pass = 1 => lens2 = <<>> /\ text = <<>>
        /\ pass = 2 => api = "build" /\ Len(lens1) = Len(routine)
        /\ (api = "build" /\ result.tag = "Ok") =>
              pass = 2 /\ Len(lens2) = Len(routine)
        /\ (api = "fmt" /\ result # NoResult) =>
              pass = 1 /\ Len(lens1) = Len(routine)
        /\ (api = "fmt" /\ pc = "routine" /\ idx = 1) => mode = "Format")
  /\ [][/\ pass' # pass =>
             /\ pass = 1 /\ pass' = 2 /\ idx = Len(routine) + 1 /\ idx' = 1
             /\ mode = "Capacity" /\ mode' = "Text" /\ text' = <<>>
             /\ lens1' = lens1
        /\ (api = "build" /\ idx' = idx + 1) =>
             /\ pass' = pass
             /\ pass = 1 => /\ mode = "Capacity" /\ mode' = "Capacity"
                            /\ Len(lens1') = Len(lens1) + 1
             /\ pass = 2 => /\ mode = "Text" /\ mode' = "Text"
                            /\ Len(lens2') = Len(lens2) + 1
                            /\ lens1' = lens1]_vars

\* build returned a container after two invocations of two appends each
C19_Witness ==
  /\ api = "build" /\ result.tag = "Ok" /\ pass = 2
  /\ Len(routine) = 2 /\ Len(lens1) = 2 /\ Len(lens2) = 2
  /\ text # <<>>

\* C20: append_owned_unsafe(size, producer) adds exactly size to capacity in
\* Measuring, Formatting and FormattingFailed modes, whatever the length of
\* the produced text; it does not invoke the producer in Measuring and
\* FormattingFailed modes and invokes it once in Filling and Formatting
\* modes, where the produced text is what is pushed or written.
C20_OwnedUnsafe ==
  [][AtOp("append_owned_unsafe") =>
       LET a == routine[idx]
       IN /\ mode \in {"Capacity", "FormatError"} =>
               /\ capacity' = capacity + a.size
               /\ produced' = produced
               /\ text' = text /\ fmtr' = fmtr /\ mode' = mode
               /\ pc' = "routine"
          /\ mode = "Format" =>
               /\ capacity' = capacity + a.size
               /\ produced' = produced + 1
               /\ fmtr'.calls = fmtr.calls + 1
               /\ mode' = "Format" => fmtr'.out = fmtr.out \o a.text
               /\ mode' # "Format" => fmtr'.out = fmtr.out
               /\ text' = text
          /\ mode = "Text" =>
               /\ produced' = produced + 1
               /\ capacity' = capacity
               /\ pc' = "routine" => text' = text \o a.text
               /\ pc' # "routine" => debug /\ Len(a.text) # a.size]_vars

\* fmt wrote the two-byte text of a producer announced with size 3
C20_Witness ==
  /\ api = "fmt" /\ Len(routine) = 1 /\ idx = 2
  /\ routine[1].op = "append_owned_unsafe"
  /\ routine[1].size = 3 /\ Len(routine[1].text) = 2
  /\ capacity = 3 /\ produced = 1 /\ fmtr.out = routine[1].text

\* C17: a StringBuilder::build whose routine calls append_with_replace comes
\* to an end for every (source, from, to), an empty `from` included: the
\* Measuring pass and the scan loop of the Filling pass finish.
C17_BuildTerminates ==
  (api = "build") => <>(pc # "routine")

\* C18: with a non-empty `from`, each iteration of the scan loop (Filling and
\* Formatting) increases start by at least len(from), start never exceeds
\* len(source), no slice is out of bounds, and the loop terminates.
C18_ScanAdvances ==
  /\ [](scan.pc # "idle" =>
          /\ scan.start <= Len(routine[idx].value)
          /\ scan.pc = "body" =>
                scan.start + scan.pos + Len(routine[idx].from)
                  <= Len(routine[idx].value))
  /\ [][(scan.pc = "body" /\ routine[idx].from # <<>> /\ scan'.pc = "find")
         => /\ scan'.start >= scan.start + Len(routine[idx].from)
            /\ scan'.start > scan.start]_vars
  /\ [][(scan.pc = "find" /\ routine[idx].from # <<>>)
         => pc' \notin {"panicked", "aborted"}]_vars
  /\ (scan.pc = "find" /\ routine[idx].from # <<>>) ~> (scan.pc = "idle")

\* the Filling loop went twice round over "/a/" and left the loop
C18_Witness ==
  /\ mode = "Text" /\ scan.pc = "rest"
  /\ routine[idx].value = <<47, 97, 47>> /\ routine[idx].from = <<47>>
  /\ scan.start = 3
  /\ text = <<43, 43, 97, 43, 43>>

\* every call of the routine is an append_owned_unsafe or an append of a
\* text slice, char or boxed string
OwnedOrPlain ==
  \A i \in 1..Len(routine) :
    \/ routine[i].op = "append_owned_unsafe"
    \/ routine[i].op = "append" /\ routine[i].value.t \in PlainKinds

\* the texts the calls of such a routine produce, in order
RECURSIVE ActualConcat(_)
ActualConcat(ops) ==
  IF ops = <<>> THEN <<>>
  ELSE (IF Head(ops).op = "append_owned_unsafe" THEN Head(ops).text
        ELSE NaiveEncoding(Head(ops).value))
       \o ActualConcat(Tail(ops))

\* the sum over the append_owned_unsafe calls of size - len(produced text)
RECURSIVE OwnedExcess(_)
OwnedExcess(ops) ==
  IF ops = <<>> THEN 0
  ELSE (IF Head(ops).op = "append_owned_unsafe"
        THEN Head(ops).size - Len(Head(ops).text) ELSE 0)
       + OwnedExcess(Tail(ops))

\* C21: an append_owned_unsafe whose producer returns a text of a length
\* other than `size` panics in the Filling pass of a debug build, so a debug
\* build never returns a container; with assertions disabled the text is
\* pushed as produced, build reaches its return without panic and returns Ok
\* with the produced texts, the capacity of the Measuring pass differing
\* from the length of the container by the excess of the sizes.
C21_OwnedMismatch ==
  /\ [][(AtOp("append_owned_unsafe") /\ mode = "Text"
          /\ Len(routine[idx].text) # routine[idx].size)
         => IF debug
            THEN pc' = "panicked" /\ result' = NoResult
            ELSE /\ pc' = "routine"
                 /\ text' = text \o routine[idx].text
                 /\ capacity' = capacity]_vars
  /\ [][(AtBuildAssert /\ ~debug /\ ~OwnedSizesTrue)
         => /\ pc' = "returned"
            /\ result' = [tag |-> "Ok", val |-> from_mut(T, text)]]_vars
  /\ []((api = "build" /\ debug /\ ~OwnedSizesTrue) => result.tag # "Ok")
  /\ []((api = "build" /\ ~debug /\ ~OwnedSizesTrue /\ OwnedOrPlain) =>
          /\ pc \notin {"panicked", "diverged"}
          /\ result.tag = "Ok" =>
                /\ result.val.data = ActualConcat(routine)
                /\ capacity = Len(result.val.data) + OwnedExcess(routine)
                /\ (OwnedExcess(routine) # 0
                      => Len(result.val.data) # capacity))

\* a release build returned "hi01" after measuring 5 for it
C21_Witness ==
  /\ api = "build" /\ ~debug /\ result.tag = "Ok"
  /\ Len(routine) = 2 /\ routine[1].op = "append"
  /\ routine[2].op = "append_owned_unsafe"
  /\ routine[2].size = 3
  /\ result.val.data = <<104, 105, 48, 49>>
  /\ capacity = 5

\* the total the Measuring pass computed: len() after its last append
MeasuredTotal == IF lens1 = <<>> THEN 0 ELSE lens1[Len(lens1)]

\* C22: in build (StringBuilder and BytesBuilder) an append in Measuring
\* mode completes, does not decrease capacity and changes nothing else (the
\* buffer does not exist); an append in Filling mode leaves capacity, the
\* mode and the sink alone, so that at the end of the Filling pass capacity
\* is the Measuring-pass total.
C22_PassFrames ==
  /\ [][(api = "build" /\ Running /\ mode = "Capacity")
         => /\ pc' = "routine"
            /\ capacity' >= capacity
            /\ text = <<>> /\ text' = text
            /\ fmtr' = fmtr /\ produced' = produced /\ mode' = mode]_vars
  /\ [][(api = "build" /\ Running /\ mode = "Text")
         => /\ capacity' = capacity
            /\ fmtr' = fmtr /\ mode' = mode]_vars
  /\ [](AtBuildAssert => capacity = MeasuredTotal)

\* one call of a routine made on the builder b
ApplyOp(b, op) ==
  CASE op.op = "append" -> string_append(b, op.value)
    [] op.op = "append_with_replace" ->
         append_with_replace(b, op.value, op.from, op.to)
    [] op.op = "append_owned_unsafe" ->
         append_owned_unsafe(b, op.size, op.text)

RECURSIVE ApplyOps(_, _)
ApplyOps(b, ops) ==
  IF ops = <<>> \/ b.ctl # "run" THEN b
  ELSE ApplyOps(ApplyOp(b, Head(ops)), Tail(ops))

\* the string the Filling pass of build makes of the calls ops
FillText(ops) ==
  ApplyOps([capacity |-> 0, mode |-> "Text", error |-> Ok, text |-> <<>>,
            fmtr |-> [out |-> <<>>, calls |-> 0, script |-> <<>>,
                      failed |-> <<>>],
            ctl |-> "run", produced |-> 0, debug |-> FALSE], ops).text

\* the calls the running invocation has made
Done == SubSeq(routine, 1, idx - 1)

\* C23: as long as no sink write has failed, the text fmt has written to the
\* sink is the string the Filling pass of build holds after the same calls;
\* at the return of fmt and of build this is the whole routine, routines
\* appending a composite value (several nested appends) included.
C23_FmtEqualsBuild ==
  /\ (api = "fmt" /\ pc \in {"routine", "returned"} /\ fmtr.failed = <<>>)
       => fmtr.out = FillText(Done)
  /\ (api = "build" /\ ~IsBytes /\ pass = 2
        /\ pc \in {"routine", "returned"})
       => text = FillText(Done)
  /\ (api = "fmt" /\ result = [tag |-> "Ok"]) => fmtr.out = FillText(routine)
  /\ (api = "build" /\ ~IsBytes /\ result.tag = "Ok")
       => result.val.data = FillText(routine)

\* Display of MyStruct followed by an integer: "Hello there!-5"
C23_Witness ==
  /\ api = "fmt" /\ result = [tag |-> "Ok"]
  /\ Len(routine) = 2
  /\ routine[1].op = "append" /\ routine[1].value.t = "&MyStruct"
  /\ routine[2].op = "append" /\ routine[2].value.t = "int"
  /\ routine[2].value.n = -5
  /\ fmtr.out = <<72, 101, 108, 108, 111, 32, 116, 104, 101, 114, 101, 33,
                  45, 53>>
  /\ fmtr.calls = 3

\* C24: for every container type (String, Box<str>, Vec<u8>, Box<[u8]>,
\* EcoString, HipStr) a build that stops at with_capacity, before the Filling
\* pass, does so by returning the allocation error: the reservation that
\* cannot be satisfied is an Err, not a panic and not an abort.
C24_ReserveFailsCleanly ==
  (api = "build" /\ pass = 1 /\ idx > Len(routine) /\ pc # "routine")
    => /\ pc = "returned"
       /\ result = [tag |-> "Err", err |-> [by |-> "TryReserveError"]]
====
